---- MODULE Spec2Model ----
(***************************************************************************)
(* The temporal-difference update rules of mushroom/algorithms/value/td.py *)
(* as a state machine.  The agent object is the record `self`; a fit call  *)
(* is one step.  Floating-point values are modelled as exact rationals     *)
(* <<numerator, denominator>> in lowest terms.                             *)
(***************************************************************************)
EXTENDS Integers, Sequences, FiniteSets, TLC

VARIABLES
    self,   \* the agent object (its fields), [cls |-> "none"] before construction
    heap,   \* object store of the tables SpeedyQLearning deep-copies
    last,   \* the last call: its arguments, the collaborators' answers, what it raised
    nfit,   \* number of fit calls made so far
    hist    \* per trace entry: visits since the episode began, value after the
            \* first visit, fit calls since then

vars == <<self, heap, last, nfit, hist>>

(***************************************************************************)
(* Bounds of the model.                                                    *)
(***************************************************************************)
MaxFit == 2
MaxFitLong == 3

States == {0, 1}
Actions == {0, 1}

(***************************************************************************)
(* Exact rational arithmetic standing for the float arithmetic of numpy.   *)
(***************************************************************************)
Abs(n) == IF n < 0 THEN -n ELSE n

RECURSIVE GCD(_, _)
GCD(a, b) == IF b = 0 THEN a ELSE GCD(b, a % b)

RNorm(n, d) ==
    LET g == GCD(Abs(n), d) IN <<n \div g, d \div g>>

Zero == <<0, 1>>
One == <<1, 1>>

RAdd(x, y) ==
    LET g == GCD(x[2], y[2])
    IN  RNorm(x[1] * (y[2] \div g) + y[1] * (x[2] \div g), (x[2] \div g) * y[2])

RNeg(x) == <<-x[1], x[2]>>

RSub(x, y) == RAdd(x, RNeg(y))

RMul(x, y) ==
    LET g1 == GCD(Abs(x[1]), y[2])
        g2 == GCD(Abs(y[1]), x[2])
    IN  <<(x[1] \div g1) * (y[1] \div g2), (x[2] \div g2) * (y[2] \div g1)>>

RLt(x, y) == x[1] * y[2] < y[1] * x[2]

RLe(x, y) == x[1] * y[2] <= y[1] * x[2]

\* np.max of a row: the entry no other entry exceeds
RowMax(row) == CHOOSE m \in {row[a] : a \in DOMAIN row} :
                   \A b \in DOMAIN row : RLe(row[b], m)

\* np.argwhere(row == max).ravel(): every index holding the maximum
ArgMaxSet(row) == {a \in DOMAIN row : row[a] = RowMax(row)}

RECURSIVE Dot(_, _, _)
\* np.dot of two vectors over the index set idx
Dot(u, v, idx) ==
    IF idx = {} THEN Zero
    ELSE LET i == CHOOSE j \in idx : TRUE
         IN  RAdd(RMul(u[i], v[i]), Dot(u, v, idx \ {i}))

RECURSIVE RPow(_, _)
RPow(x, k) == IF k = 0 THEN One ELSE RMul(x, RPow(x, k - 1))

(***************************************************************************)
(* Inputs: the MDP descriptor's discount, the rewards of the transitions,  *)
(* and what the collaborators (schedules, policy) may answer.              *)
(***************************************************************************)
Gammas == {<<9, 10>>}
Rewards == {One}
AlphaValues == {Zero, <<1, 2>>}
BetaValues == {<<1, 10>>, <<1, 2>>}
\* policy(next_state): a probability vector over the actions
PolicyDists == {[a \in Actions |-> IF a = 0 THEN p ELSE RSub(One, p)] :
                   p \in {Zero, <<1, 2>>, One}}
NoAction == -1
Lambdas == {<<1, 2>>}
TraceKinds == {"replacing", "accumulating"}
CoefValues == {Zero, <<1, 2>>}
\* count / precision of WeightedQLearning._next_q: the share of the samples
\* in which each action attained the maximum
FreqVectors == PolicyDists
Features == {0, 1}

Samples == {<<s, a, r, s2, ab>> : s \in States, a \in Actions, r \in Rewards,
                                  s2 \in States, ab \in BOOLEAN}

(***************************************************************************)
(* Collaborators that live outside td.py.                                  *)
(***************************************************************************)
\* Table(mdp_info.size, initial_value)
Table(initial_value) == [s \in States |-> [a \in Actions |-> initial_value]]

\* Parameter: a schedule keeps one visitation counter per (state, action);
\* a call advances the counter of its key.  The value it returns is the
\* collaborator's decay law, an input of the call.
Parameter == [s \in States |-> [a \in Actions |-> 0]]

ParameterCall(p, state, action) ==
    [p EXCEPT ![state][action] = @ + 1]

(***************************************************************************)
(* TD: the base class.                                                     *)
(***************************************************************************)
\* TD._parse
TD_parse(dataset) ==
    LET sample == dataset[1]
    IN  [state |-> sample[1], action |-> sample[2], reward |-> sample[3],
         next_state |-> sample[4], absorbing |-> sample[5]]

\* the residual update shared by the one-step rules:
\* q_current + alpha * (reward + gamma * q_next - q_current)
Residual(q_current, alpha, reward, gamma, q_next) ==
    RAdd(q_current,
         RMul(alpha, RSub(RAdd(reward, RMul(gamma, q_next)), q_current)))

NoCall == [op |-> "none"]
NoAgent == [cls |-> "none"]
NoHeap == <<>>
NoHist == <<>>

Init ==
    /\ self = NoAgent
    /\ heap = NoHeap
    /\ last = NoCall
    /\ nfit = 0
    /\ hist = NoHist

\* TD.fit, line 36: a dataset that does not hold exactly one sample.
\* Every fit action makes its call only while fewer than `bound` calls were made.
FitBadDataset(bound) ==
    /\ self.cls \notin {"none", "failed"}
    /\ nfit < bound
    /\ \E n \in {0, 2} :
          last' = [op |-> "fit", cls |-> self.cls, len |-> n,
                   raised |-> "AssertionError"]
    /\ nfit' = nfit + 1
    /\ UNCHANGED <<self, heap, hist>>

(***************************************************************************)
(* QLearning                                                               *)
(***************************************************************************)
QLearning_init(gamma) ==
    [cls |-> "QLearning", gamma |-> gamma, Q |-> Table(Zero), alpha |-> Parameter]

\* a faulty variant: the bootstrap value is read even when absorbing
QLearning_update_bootstraps_terminal(me, state, action, reward, next_state, absorbing, alpha) ==
    LET q_current == me.Q[state][action]
        q_next == RowMax(me.Q[next_state])
    IN  [me EXCEPT
            !.alpha = ParameterCall(@, state, action),
            !.Q[state][action] =
                Residual(q_current, alpha, reward, me.gamma, q_next)]

\* a faulty variant: the learning rate multiplies the target alone
QLearning_update_misplaced_rate(me, state, action, reward, next_state, absorbing, alpha) ==
    LET q_current == me.Q[state][action]
        q_next == IF ~absorbing THEN RowMax(me.Q[next_state]) ELSE Zero
    IN  [me EXCEPT
            !.alpha = ParameterCall(@, state, action),
            !.Q[state][action] =
                RSub(RAdd(q_current,
                          RMul(alpha, RAdd(reward, RMul(me.gamma, q_next)))),
                     q_current)]

QLearning_update(me, state, action, reward, next_state, absorbing, alpha) ==
    LET q_current == me.Q[state][action]
        q_next == IF ~absorbing THEN RowMax(me.Q[next_state]) ELSE Zero
    IN  [me EXCEPT
            !.alpha = ParameterCall(@, state, action),
            !.Q[state][action] =
                Residual(q_current, alpha, reward, me.gamma, q_next)]

NewQLearning ==
    /\ self = NoAgent
    /\ \E g \in Gammas :
          /\ self' = QLearning_init(g)
          /\ last' = [op |-> "init", cls |-> "QLearning"]
    /\ UNCHANGED <<heap, nfit, hist>>

FitQLearning(bound) ==
    /\ self.cls = "QLearning"
    /\ nfit < bound
    /\ \E sample \in Samples, al \in AlphaValues :
          LET t == TD_parse(<<sample>>)
          IN  /\ self' = QLearning_update(self, t.state, t.action, t.reward,
                                          t.next_state, t.absorbing, al)
              /\ last' = [op |-> "fit", cls |-> "QLearning", t |-> t,
                          alpha |-> al, raised |-> "no"]
    /\ nfit' = nfit + 1
    /\ UNCHANGED <<heap, hist>>

(***************************************************************************)
(* DoubleQLearning                                                         *)
(***************************************************************************)
DoubleQLearning_init(gamma) ==
    [cls |-> "DoubleQLearning", gamma |-> gamma,
     Q |-> [i \in {0, 1} |-> Table(Zero)],
     alpha |-> [i \in {0, 1} |-> Parameter]]

\* lines 120-123: the actions np.random.choice may return
DoubleQLearning_argmax(me, approximator_idx, next_state) ==
    ArgMaxSet(me.Q[approximator_idx][next_state])

\* a faulty variant: the bootstrap value is read from the store being written
DoubleQLearning_update_own_store(me, state, action, reward, next_state, absorbing, alpha, approximator_idx, a_n) ==
    LET q_current == me.Q[approximator_idx][state][action]
        q_next == IF ~absorbing
                  THEN me.Q[approximator_idx][next_state][a_n]
                  ELSE Zero
        q == Residual(q_current, alpha, reward, me.gamma, q_next)
    IN  [me EXCEPT
            !.alpha[approximator_idx] = ParameterCall(@, state, action),
            !.Q[approximator_idx][state][action] = q]

DoubleQLearning_update(me, state, action, reward, next_state, absorbing, alpha, approximator_idx, a_n) ==
    LET q_current == me.Q[approximator_idx][state][action]
        q_next == IF ~absorbing
                  THEN me.Q[1 - approximator_idx][next_state][a_n]
                  ELSE Zero
        q == Residual(q_current, alpha, reward, me.gamma, q_next)
    IN  [me EXCEPT
            !.alpha[approximator_idx] = ParameterCall(@, state, action),
            !.Q[approximator_idx][state][action] = q]

NewDoubleQLearning ==
    /\ self = NoAgent
    /\ \E g \in Gammas :
          /\ self' = DoubleQLearning_init(g)
          /\ last' = [op |-> "init", cls |-> "DoubleQLearning"]
    /\ UNCHANGED <<heap, nfit, hist>>

FitDoubleQLearning(bound) ==
    /\ self.cls = "DoubleQLearning"
    /\ nfit < bound
    /\ \E sample \in Samples, al \in AlphaValues, idx \in {0, 1} :
          LET t == TD_parse(<<sample>>)
          IN  \E a_n \in IF t.absorbing THEN {NoAction}
                         ELSE DoubleQLearning_argmax(self, idx, t.next_state) :
                 /\ self' = DoubleQLearning_update(self, t.state, t.action,
                                t.reward, t.next_state, t.absorbing, al, idx, a_n)
                 /\ last' = [op |-> "fit", cls |-> "DoubleQLearning", t |-> t,
                             alpha |-> al, approximator_idx |-> idx,
                             a_n |-> a_n, raised |-> "no"]
    /\ nfit' = nfit + 1
    /\ UNCHANGED <<heap, hist>>

(***************************************************************************)
(* SpeedyQLearning.  self.Q and self.old_q are references into the heap,   *)
(* so that a copy which shares its table with the original can be told     *)
(* from a deep copy.                                                       *)
(***************************************************************************)
Refs == {0, 1, 2}

\* a fresh object holding obj: <<heap, reference>>
Alloc(h, obj) ==
    LET r == CHOOSE x \in Refs \ DOMAIN h : \A y \in Refs \ DOMAIN h : x <= y
    IN  <<[x \in DOMAIN h \cup {r} |-> IF x = r THEN obj ELSE h[x]], r>>

\* copy.deepcopy of the table behind ref: <<heap, reference of the copy>>
deepcopy(h, ref) == Alloc(h, h[ref])

\* objects no field refers to any more are dropped
Collect(h, roots) == [x \in roots |-> h[x]]

SpeedyQLearning_init(gamma) ==
    LET q == Alloc(NoHeap, Table(Zero))
        old == deepcopy(q[1], q[2])
    IN  [self |-> [cls |-> "SpeedyQLearning", gamma |-> gamma, Q |-> q[2],
                   old_q |-> old[2], alpha |-> Parameter],
         heap |-> old[1]]

\* a faulty variant: old_q is bound to the object Q itself, not to a copy
SpeedyQLearning_update_alias(me, h, state, action, reward, next_state, absorbing, alpha_v) ==
    LET old_q == me.Q
        max_q_cur == IF ~absorbing THEN RowMax(h[me.Q][next_state]) ELSE Zero
        max_q_old == IF ~absorbing THEN RowMax(h[me.old_q][next_state])
                     ELSE Zero
        target_cur == RAdd(reward, RMul(me.gamma, max_q_cur))
        target_old == RAdd(reward, RMul(me.gamma, max_q_old))
        q_cur == h[me.Q][state][action]
        q_new == RAdd(RAdd(q_cur, RMul(alpha_v, RSub(target_old, q_cur))),
                      RMul(RSub(One, alpha_v), RSub(target_cur, target_old)))
        h2 == [h EXCEPT ![me.Q][state][action] = q_new]
        me2 == [me EXCEPT !.alpha = ParameterCall(@, state, action),
                          !.old_q = old_q]
    IN  [self |-> me2, heap |-> Collect(h2, {me2.Q, me2.old_q})]

SpeedyQLearning_update(me, h, state, action, reward, next_state, absorbing, alpha_v) ==
    LET copy == deepcopy(h, me.Q)
        h1 == copy[1]
        old_q == copy[2]
        max_q_cur == IF ~absorbing THEN RowMax(h1[me.Q][next_state]) ELSE Zero
        max_q_old == IF ~absorbing THEN RowMax(h1[me.old_q][next_state])
                     ELSE Zero
        target_cur == RAdd(reward, RMul(me.gamma, max_q_cur))
        target_old == RAdd(reward, RMul(me.gamma, max_q_old))
        q_cur == h1[me.Q][state][action]
        q_new == RAdd(RAdd(q_cur, RMul(alpha_v, RSub(target_old, q_cur))),
                      RMul(RSub(One, alpha_v), RSub(target_cur, target_old)))
        h2 == [h1 EXCEPT ![me.Q][state][action] = q_new]
        me2 == [me EXCEPT !.alpha = ParameterCall(@, state, action),
                          !.old_q = old_q]
    IN  [self |-> me2, heap |-> Collect(h2, {me2.Q, me2.old_q})]

NewSpeedyQLearning ==
    /\ self = NoAgent
    /\ \E g \in Gammas :
          LET r == SpeedyQLearning_init(g)
          IN  /\ self' = r.self
              /\ heap' = r.heap
              /\ last' = [op |-> "init", cls |-> "SpeedyQLearning"]
    /\ UNCHANGED <<nfit, hist>>

FitSpeedyQLearning(bound) ==
    /\ self.cls = "SpeedyQLearning"
    /\ nfit < bound
    /\ \E sample \in Samples, al \in AlphaValues :
          LET t == TD_parse(<<sample>>)
              r == SpeedyQLearning_update(self, heap, t.state, t.action,
                       t.reward, t.next_state, t.absorbing, al)
          IN  /\ self' = r.self
              /\ heap' = r.heap
              /\ last' = [op |-> "fit", cls |-> "SpeedyQLearning", t |-> t,
                          alpha |-> al, raised |-> "no"]
    /\ nfit' = nfit + 1
    /\ UNCHANGED hist

(***************************************************************************)
(* SARSA                                                                   *)
(***************************************************************************)
SARSA_init(gamma) ==
    [cls |-> "SARSA", gamma |-> gamma, Q |-> Table(Zero), alpha |-> Parameter,
     next_action |-> NoAction]

\* next_action is what self.draw_action(next_state) answered
SARSA_update(me, state, action, reward, next_state, absorbing, alpha, next_action) ==
    LET q_current == me.Q[state][action]
        q_next == IF ~absorbing THEN me.Q[next_state][next_action] ELSE Zero
    IN  [me EXCEPT
            !.next_action = next_action,
            !.alpha = ParameterCall(@, state, action),
            !.Q[state][action] =
                Residual(q_current, alpha, reward, me.gamma, q_next)]

NewSARSA ==
    /\ self = NoAgent
    /\ \E g \in Gammas :
          /\ self' = SARSA_init(g)
          /\ last' = [op |-> "init", cls |-> "SARSA"]
    /\ UNCHANGED <<heap, nfit, hist>>

FitSARSA(bound) ==
    /\ self.cls = "SARSA"
    /\ nfit < bound
    /\ \E sample \in Samples, al \in AlphaValues, na \in Actions :
          LET t == TD_parse(<<sample>>)
          IN  /\ self' = SARSA_update(self, t.state, t.action, t.reward,
                                      t.next_state, t.absorbing, al, na)
              /\ last' = [op |-> "fit", cls |-> "SARSA", t |-> t,
                          alpha |-> al, next_action |-> na, raised |-> "no"]
    /\ nfit' = nfit + 1
    /\ UNCHANGED <<heap, hist>>

(***************************************************************************)
(* ExpectedSARSA                                                           *)
(***************************************************************************)
ExpectedSARSA_init(gamma) ==
    [cls |-> "ExpectedSARSA", gamma |-> gamma, Q |-> Table(Zero),
     alpha |-> Parameter]

\* pi is what self.policy(next_state) answered
ExpectedSARSA_update(me, state, action, reward, next_state, absorbing, alpha, pi) ==
    LET q_current == me.Q[state][action]
        q_next == IF ~absorbing THEN Dot(me.Q[next_state], pi, Actions)
                  ELSE Zero
    IN  [me EXCEPT
            !.alpha = ParameterCall(@, state, action),
            !.Q[state][action] =
                Residual(q_current, alpha, reward, me.gamma, q_next)]

NoDist == [a \in Actions |-> Zero]

NewExpectedSARSA ==
    /\ self = NoAgent
    /\ \E g \in Gammas :
          /\ self' = ExpectedSARSA_init(g)
          /\ last' = [op |-> "init", cls |-> "ExpectedSARSA"]
    /\ UNCHANGED <<heap, nfit, hist>>

FitExpectedSARSA(bound) ==
    /\ self.cls = "ExpectedSARSA"
    /\ nfit < bound
    /\ \E sample \in Samples, al \in AlphaValues :
          LET t == TD_parse(<<sample>>)
          IN  \E pi \in IF t.absorbing THEN {NoDist} ELSE PolicyDists :
                 /\ self' = ExpectedSARSA_update(self, t.state, t.action,
                                t.reward, t.next_state, t.absorbing, al, pi)
                 /\ last' = [op |-> "fit", cls |-> "ExpectedSARSA", t |-> t,
                             alpha |-> al, pi |-> pi, raised |-> "no"]
    /\ nfit' = nfit + 1
    /\ UNCHANGED <<heap, hist>>

(***************************************************************************)
(* RLearning                                                               *)
(***************************************************************************)
RLearning_init ==
    [cls |-> "RLearning", Q |-> Table(Zero), _rho |-> Zero,
     alpha |-> Parameter, beta |-> Parameter]

\* beta_v is what self.beta(state, action) answers if it is called
\* a faulty variant: rho is updated whether or not the written value is the
\* maximum of its row
RLearning_update_always_rho(me, state, action, reward, next_state, absorbing, alpha_v, beta_v) ==
    LET q_current == me.Q[state][action]
        q_next == IF ~absorbing THEN RowMax(me.Q[next_state]) ELSE Zero
        delta == RSub(RAdd(RSub(reward, me._rho), q_next), q_current)
        q_new == RAdd(q_current, RMul(alpha_v, delta))
        me1 == [me EXCEPT !.alpha = ParameterCall(@, state, action),
                          !.Q[state][action] = q_new]
        q_max == RowMax(me1.Q[state])
    IN  [me1 EXCEPT
            !.beta = ParameterCall(@, state, action),
            !._rho = RAdd(@, RMul(beta_v,
                        RSub(RSub(RAdd(reward, q_next), q_max), me._rho)))]

RLearning_update(me, state, action, reward, next_state, absorbing, alpha_v, beta_v) ==
    LET q_current == me.Q[state][action]
        q_next == IF ~absorbing THEN RowMax(me.Q[next_state]) ELSE Zero
        delta == RSub(RAdd(RSub(reward, me._rho), q_next), q_current)
        q_new == RAdd(q_current, RMul(alpha_v, delta))
        me1 == [me EXCEPT !.alpha = ParameterCall(@, state, action),
                          !.Q[state][action] = q_new]
        q_max == RowMax(me1.Q[state])
    IN  IF q_new = q_max
        THEN [me1 EXCEPT
                 !.beta = ParameterCall(@, state, action),
                 !._rho = RAdd(@, RMul(beta_v,
                             RSub(RSub(RAdd(reward, q_next), q_max), me._rho)))]
        ELSE me1

NewRLearning ==
    /\ self = NoAgent
    /\ self' = RLearning_init
    /\ last' = [op |-> "init", cls |-> "RLearning"]
    /\ UNCHANGED <<heap, nfit, hist>>

FitRLearning(bound) ==
    /\ self.cls = "RLearning"
    /\ nfit < bound
    /\ \E sample \in Samples, al \in AlphaValues \cup {One}, be \in BetaValues :
          LET t == TD_parse(<<sample>>)
          IN  /\ self' = RLearning_update(self, t.state, t.action, t.reward,
                                          t.next_state, t.absorbing, al, be)
              /\ last' = [op |-> "fit", cls |-> "RLearning", t |-> t,
                          alpha |-> al, beta |-> be, raised |-> "no"]
    /\ nfit' = nfit + 1
    /\ UNCHANGED <<heap, hist>>

(***************************************************************************)
(* SARSALambdaDiscrete                                                     *)
(***************************************************************************)
\* EligibilityTrace(shape, name): a table of zeros and its decay policy
EligibilityTrace(name) == [table |-> Table(Zero), name |-> name]

\* EligibilityTrace.update(state, action)
EligibilityTrace_update(e, state, action) ==
    IF e.name = "replacing"
    THEN [e EXCEPT !.table[state][action] = One]
    ELSE [e EXCEPT !.table[state][action] = RAdd(@, One)]

\* EligibilityTrace.reset()
EligibilityTrace_reset(e) == [e EXCEPT !.table = Table(Zero)]

SARSALambdaDiscrete_init(gamma, lambda_coeff, trace) ==
    [cls |-> "SARSALambdaDiscrete", gamma |-> gamma, Q |-> Table(Zero),
     _lambda |-> lambda_coeff, e |-> EligibilityTrace(trace),
     alpha |-> Parameter, next_action |-> NoAction]

\* line 311: self.e.table *= self.mdp_info.gamma * self._lambda
\* a faulty variant: the trace decays by gamma alone
SARSALambdaDiscrete_decay_gamma_only(me, table) ==
    [s \in States |-> [a \in Actions |-> RMul(table[s][a], me.gamma)]]

SARSALambdaDiscrete_decay(me, table) ==
    [s \in States |-> [a \in Actions |->
        RMul(table[s][a], RMul(me.gamma, me._lambda))]]

SARSALambdaDiscrete_update(me, state, action, reward, next_state, absorbing, alpha_v, next_action) ==
    LET q_current == me.Q[state][action]
        q_next == IF ~absorbing THEN me.Q[next_state][next_action] ELSE Zero
        delta == RSub(RAdd(reward, RMul(me.gamma, q_next)), q_current)
        e1 == EligibilityTrace_update(me.e, state, action)
        step == RMul(alpha_v, delta)
    IN  [me EXCEPT
            !.next_action = next_action,
            !.alpha = ParameterCall(@, state, action),
            !.Q = [s \in States |-> [a \in Actions |->
                      RAdd(me.Q[s][a], RMul(step, e1.table[s][a]))]],
            !.e = [e1 EXCEPT !.table = SARSALambdaDiscrete_decay(me, e1.table)]]

SARSALambdaDiscrete_episode_start(me) ==
    [me EXCEPT !.e = EligibilityTrace_reset(@)]

NewHist == [s \in States |-> [a \in Actions |->
               [visits |-> 0, first |-> Zero, k |-> 0]]]

\* the bookkeeping of one fit call on (state, action) that left the trace e
HistFit(h, state, action, e) ==
    [s \in States |-> [a \in Actions |->
        IF s = state /\ a = action
        THEN IF h[s][a].visits = 0
             THEN [visits |-> 1, first |-> e[s][a], k |-> 0]
             ELSE [h[s][a] EXCEPT !.visits = 2]
        ELSE IF h[s][a].visits = 0 THEN h[s][a]
             ELSE [h[s][a] EXCEPT !.k = @ + 1]]]

NewSARSALambdaDiscrete ==
    /\ self = NoAgent
    /\ \E g \in Gammas, l \in Lambdas, tr \in TraceKinds :
          /\ self' = SARSALambdaDiscrete_init(g, l, tr)
          /\ last' = [op |-> "init", cls |-> "SARSALambdaDiscrete"]
    /\ hist' = NewHist
    /\ UNCHANGED <<heap, nfit>>

FitSARSALambdaDiscrete(bound) ==
    /\ self.cls = "SARSALambdaDiscrete"
    /\ nfit < bound
    /\ \E sample \in Samples, al \in AlphaValues, na \in Actions :
          LET t == TD_parse(<<sample>>)
          IN  /\ self' = SARSALambdaDiscrete_update(self, t.state, t.action,
                             t.reward, t.next_state, t.absorbing, al, na)
              /\ last' = [op |-> "fit", cls |-> "SARSALambdaDiscrete", t |-> t,
                          alpha |-> al, next_action |-> na, raised |-> "no"]
              /\ hist' = HistFit(hist, t.state, t.action, self'.e.table)
    /\ nfit' = nfit + 1
    /\ UNCHANGED heap

EpisodeStartSARSALambdaDiscrete ==
    /\ self.cls = "SARSALambdaDiscrete"
    /\ self' = SARSALambdaDiscrete_episode_start(self)
    /\ last' = [op |-> "episode_start", cls |-> "SARSALambdaDiscrete"]
    /\ hist' = NewHist
    /\ UNCHANGED <<heap, nfit>>

(***************************************************************************)
(* The regressor and the features of the linear-approximation rules.       *)
(***************************************************************************)
\* self.phi(state): the feature vector of a state
Phi(state) == [f \in Features |-> IF f = 0 \/ state = 1 THEN One ELSE Zero]

ZeroWeights == [a \in Actions |-> [f \in Features |-> Zero]]

\* Regressor.predict(phi, action) of a linear approximator
Regressor_predict(weights, phi, action) == Dot(weights[action], phi, Features)

\* Regressor.diff(phi, action), get_action_features(phi, action, n)
Regressor_diff(phi, action) ==
    [a \in Actions |-> [f \in Features |-> IF a = action THEN phi[f] ELSE Zero]]

VAdd(u, v) == [a \in Actions |-> [f \in Features |-> RAdd(u[a][f], v[a][f])]]

VScale(c, v) == [a \in Actions |-> [f \in Features |-> RMul(c, v[a][f])]]

RECURSIVE VDotOver(_, _, _)
VDotOver(u, v, as) ==
    IF as = {} THEN Zero
    ELSE LET a == CHOOSE b \in as : TRUE
         IN  RAdd(Dot(u[a], v[a], Features), VDotOver(u, v, as \ {a}))

VDot(u, v) == VDotOver(u, v, Actions)

(***************************************************************************)
(* SARSALambdaContinuous                                                   *)
(***************************************************************************)
SARSALambdaContinuous_init(gamma, lambda_coeff) ==
    [cls |-> "SARSALambdaContinuous", gamma |-> gamma, Q |-> ZeroWeights,
     e |-> ZeroWeights, _lambda |-> lambda_coeff, alpha |-> Parameter,
     next_action |-> NoAction]

SARSALambdaContinuous_update(me, state, action, reward, next_state, absorbing, alpha_v, next_action) ==
    LET phi_state == Phi(state)
        q_current == Regressor_predict(me.Q, phi_state, action)
        e == VAdd(VScale(RMul(me.gamma, me._lambda), me.e),
                  Regressor_diff(phi_state, action))
        phi_next_state == Phi(next_state)
        q_next == IF ~absorbing
                  THEN Regressor_predict(me.Q, phi_next_state, next_action)
                  ELSE Zero
        delta == RSub(RAdd(reward, RMul(me.gamma, q_next)), q_current)
        theta == VAdd(me.Q, VScale(RMul(alpha_v, delta), e))
    IN  [me EXCEPT
            !.alpha = ParameterCall(@, state, action),
            !.e = e,
            !.next_action = next_action,
            !.Q = theta]

SARSALambdaContinuous_episode_start(me) == [me EXCEPT !.e = ZeroWeights]

NewSARSALambdaContinuous ==
    /\ self = NoAgent
    /\ \E g \in Gammas, l \in Lambdas :
          /\ self' = SARSALambdaContinuous_init(g, l)
          /\ last' = [op |-> "init", cls |-> "SARSALambdaContinuous"]
    /\ UNCHANGED <<heap, nfit, hist>>

FitSARSALambdaContinuous(bound) ==
    /\ self.cls = "SARSALambdaContinuous"
    /\ nfit < bound
    /\ \E sample \in Samples, al \in AlphaValues, na \in Actions :
          LET t == TD_parse(<<sample>>)
          IN  /\ self' = SARSALambdaContinuous_update(self, t.state, t.action,
                             t.reward, t.next_state, t.absorbing, al, na)
              /\ last' = [op |-> "fit", cls |-> "SARSALambdaContinuous",
                          t |-> t, alpha |-> al, next_action |-> na,
                          raised |-> "no"]
    /\ nfit' = nfit + 1
    /\ UNCHANGED <<heap, hist>>

EpisodeStartSARSALambdaContinuous ==
    /\ self.cls = "SARSALambdaContinuous"
    /\ self' = SARSALambdaContinuous_episode_start(self)
    /\ last' = [op |-> "episode_start", cls |-> "SARSALambdaContinuous"]
    /\ UNCHANGED <<heap, nfit, hist>>

(***************************************************************************)
(* TrueOnlineSARSALambda                                                   *)
(***************************************************************************)
None == <<>>

TrueOnlineSARSALambda_init(gamma, lambda_coeff) ==
    [cls |-> "TrueOnlineSARSALambda", gamma |-> gamma, Q |-> ZeroWeights,
     e |-> ZeroWeights, _lambda |-> lambda_coeff, _q_old |-> None,
     alpha |-> Parameter, next_action |-> NoAction]

TrueOnlineSARSALambda_update(me, state, action, reward, next_state, absorbing, alpha_v, next_action) ==
    LET phi_state == Phi(state)
        phi_state_action == Regressor_diff(phi_state, action)
        q_current == Regressor_predict(me.Q, phi_state, action)
        q_old == IF me._q_old = None THEN q_current ELSE me._q_old
        gl == RMul(me.gamma, me._lambda)
        e_phi == VDot(me.e, phi_state_action)
        e == VAdd(VScale(gl, me.e),
                  VScale(RMul(alpha_v, RSub(One, RMul(gl, e_phi))),
                         phi_state_action))
        phi_next_state == Phi(next_state)
        q_next == IF ~absorbing
                  THEN Regressor_predict(me.Q, phi_next_state, next_action)
                  ELSE Zero
        delta == RSub(RAdd(reward, RMul(me.gamma, q_next)), q_old)
        theta == VAdd(me.Q,
                      VAdd(VScale(delta, e),
                           VScale(RMul(alpha_v, RSub(q_old, q_current)),
                                  phi_state_action)))
    IN  [me EXCEPT
            !.alpha = ParameterCall(@, state, action),
            !.e = e,
            !.next_action = next_action,
            !.Q = theta,
            !._q_old = q_next]

TrueOnlineSARSALambda_episode_start(me) ==
    [me EXCEPT !._q_old = None, !.e = ZeroWeights]

NewTrueOnlineSARSALambda ==
    /\ self = NoAgent
    /\ \E g \in Gammas, l \in Lambdas :
          /\ self' = TrueOnlineSARSALambda_init(g, l)
          /\ last' = [op |-> "init", cls |-> "TrueOnlineSARSALambda"]
    /\ UNCHANGED <<heap, nfit, hist>>

FitTrueOnlineSARSALambda(bound) ==
    /\ self.cls = "TrueOnlineSARSALambda"
    /\ nfit < bound
    /\ \E sample \in Samples, al \in AlphaValues, na \in Actions :
          LET t == TD_parse(<<sample>>)
          IN  /\ self' = TrueOnlineSARSALambda_update(self, t.state, t.action,
                             t.reward, t.next_state, t.absorbing, al, na)
              /\ last' = [op |-> "fit", cls |-> "TrueOnlineSARSALambda",
                          t |-> t, alpha |-> al, next_action |-> na,
                          raised |-> "no"]
    /\ nfit' = nfit + 1
    /\ UNCHANGED <<heap, hist>>

EpisodeStartTrueOnlineSARSALambda ==
    /\ self.cls = "TrueOnlineSARSALambda"
    /\ self' = TrueOnlineSARSALambda_episode_start(self)
    /\ last' = [op |-> "episode_start", cls |-> "TrueOnlineSARSALambda"]
    /\ UNCHANGED <<heap, nfit, hist>>

(***************************************************************************)
(* WeightedQLearning                                                       *)
(***************************************************************************)
\* an entry of the _sigma table: its initial value 1e10 (line 163), the floor
\* sqrt(1e-10) (line 194), or the square root of a variance estimate above
\* the floor
SigmaInitial == <<"1e10">>
SigmaFloor == <<"sqrt(1e-10)">>

\* lines 194-195: np.sqrt(np.maximum(var_estimator, 1e-10)); every positive
\* rational the model can hold is above 1e-10
Sigma(var_estimator) ==
    IF RLe(var_estimator, Zero) THEN SigmaFloor ELSE <<"sqrt", var_estimator>>

WeightedQLearning_init(gamma, sampling, weighted_policy) ==
    [cls |-> "WeightedQLearning", gamma |-> gamma, Q |-> Table(Zero),
     _sampling |-> sampling, alpha |-> Parameter, _n_updates |-> Table(0),
     _sigma |-> Table(SigmaInitial), _Q |-> Table(Zero), _Q2 |-> Table(Zero),
     _weights_var |-> Table(Zero), _use_weighted_policy |-> weighted_policy,
     _w |-> None, next_action |-> NoAction]

\* w is the share count / precision the normal samples gave, next_action what
\* np.random.choice(p=w) drew
WeightedQLearning_next_q(me, next_state, w, next_action) ==
    LET means == me.Q[next_state]
    IN  IF me._sampling
        THEN [raised |-> "no",
              me |-> [me EXCEPT
                         !._w = w,
                         !.next_action = IF me._use_weighted_policy
                                         THEN next_action ELSE @],
              value |-> Dot(w, means, Actions)]
        ELSE [raised |-> "NotImplementedError", me |-> me, value |-> Zero]

WeightedQLearning_update(me, state, action, reward, next_state, absorbing, alpha_v, w, next_action) ==
    LET q_current == me.Q[state][action]
        nq == IF ~absorbing
              THEN WeightedQLearning_next_q(me, next_state, w, next_action)
              ELSE [raised |-> "no", me |-> me, value |-> Zero]
        q_next == nq.value
        me0 == nq.me
        target == RAdd(reward, RMul(me.gamma, q_next))
        n == me0._n_updates[state][action] + 1
        mean == RAdd(me0._Q[state][action],
                     RMul(RSub(target, me0._Q[state][action]), <<1, n>>))
        mean2 == RAdd(me0._Q2[state][action],
                      RMul(RSub(RMul(target, target), me0._Q2[state][action]),
                           <<1, n>>))
        weights_var == RAdd(RMul(RMul(RSub(One, alpha_v), RSub(One, alpha_v)),
                                 me0._weights_var[state][action]),
                            RMul(alpha_v, alpha_v))
        var == RMul(RMul(<<n, 1>>, RSub(mean2, RMul(mean, mean))),
                    <<1, IF n > 1 THEN n - 1 ELSE 1>>)
        var_estimator == RMul(var, weights_var)
    IN  IF nq.raised # "no" THEN [raised |-> nq.raised, me |-> me]
        ELSE [raised |-> "no",
              me |-> [me0 EXCEPT
                  !.alpha = ParameterCall(@, state, action),
                  !.Q[state][action] =
                      RAdd(q_current, RMul(alpha_v, RSub(target, q_current))),
                  !._n_updates[state][action] = n,
                  !._Q[state][action] = mean,
                  !._Q2[state][action] = mean2,
                  !._weights_var[state][action] = weights_var,
                  !._sigma[state][action] =
                      IF n > 1 THEN Sigma(var_estimator) ELSE @]]

NewWeightedQLearning ==
    /\ self = NoAgent
    /\ \E g \in Gammas, sampling \in BOOLEAN, weighted_policy \in BOOLEAN :
          /\ self' = WeightedQLearning_init(g, sampling, weighted_policy)
          /\ last' = [op |-> "init", cls |-> "WeightedQLearning"]
    /\ UNCHANGED <<heap, nfit, hist>>

NoFreq == [a \in Actions |-> Zero]

FitWeightedQLearning(bound) ==
    /\ self.cls = "WeightedQLearning"
    /\ nfit < bound
    /\ \E sample \in Samples, al \in AlphaValues :
          LET t == TD_parse(<<sample>>)
              drawn == ~t.absorbing /\ self._sampling
          IN  \E w \in IF drawn THEN FreqVectors ELSE {NoFreq} :
              \E na \in IF drawn /\ self._use_weighted_policy
                        THEN {a \in Actions : w[a] # Zero} ELSE {NoAction} :
                 LET r == WeightedQLearning_update(self, t.state, t.action,
                              t.reward, t.next_state, t.absorbing, al, w, na)
                 IN  /\ self' = r.me
                     /\ last' = [op |-> "fit", cls |-> "WeightedQLearning",
                                 t |-> t, alpha |-> al, w |-> w,
                                 next_action |-> na, raised |-> r.raised]
    /\ nfit' = nfit + 1
    /\ UNCHANGED <<heap, hist>>

(***************************************************************************)
(* RQLearning                                                              *)
(***************************************************************************)
NoParameter == [none |-> TRUE]

\* beta and delta are Parameter or NoParameter (Python's None)
\* a faulty variant: delta wins when both coefficients are given
RQLearning_init_lenient(gamma, off_policy, beta, delta) ==
    IF delta # NoParameter
    THEN [cls |-> "RQLearning", gamma |-> gamma, off_policy |-> off_policy,
          delta |-> [n_updates |-> delta], beta |-> NoParameter,
          Q |-> Table(Zero),
          Q_tilde |-> Table(Zero), R_tilde |-> Table(Zero),
          alpha |-> Parameter, next_action |-> NoAction]
    ELSE IF beta # NoParameter
    THEN [cls |-> "RQLearning", gamma |-> gamma, off_policy |-> off_policy,
          delta |-> NoParameter, beta |-> [n_updates |-> beta],
          Q |-> Table(Zero),
          Q_tilde |-> Table(Zero), R_tilde |-> Table(Zero),
          alpha |-> Parameter, next_action |-> NoAction]
    ELSE [cls |-> "failed", raised |-> "ValueError"]

RQLearning_init(gamma, off_policy, beta, delta) ==
    IF delta # NoParameter /\ beta = NoParameter
    THEN [cls |-> "RQLearning", gamma |-> gamma, off_policy |-> off_policy,
          delta |-> [n_updates |-> delta], beta |-> NoParameter,
          Q |-> Table(Zero),
          Q_tilde |-> Table(Zero), R_tilde |-> Table(Zero),
          alpha |-> Parameter, next_action |-> NoAction]
    ELSE IF delta = NoParameter /\ beta # NoParameter
    THEN [cls |-> "RQLearning", gamma |-> gamma, off_policy |-> off_policy,
          delta |-> NoParameter, beta |-> [n_updates |-> beta],
          Q |-> Table(Zero),
          Q_tilde |-> Table(Zero), R_tilde |-> Table(Zero),
          alpha |-> Parameter, next_action |-> NoAction]
    ELSE [cls |-> "failed", raised |-> "ValueError"]

\* next_action is what self.draw_action(next_state) answers if it is called
RQLearning_next_q(me, next_state, next_action) ==
    IF me.off_policy
    THEN [me |-> me, value |-> RowMax(me.Q[next_state])]
    ELSE [me |-> [me EXCEPT !.next_action = next_action],
          value |-> me.Q[next_state][next_action]]

\* coef is what the delta or the beta schedule answers if it is called
\* a faulty variant: Q is recomputed only on the transitions that are not
\* absorbing
RQLearning_update_stale_Q(me, state, action, reward, next_state, absorbing, alpha_v, coef, next_action) ==
    LET me1 == [me EXCEPT
                   !.alpha = ParameterCall(@, state, action),
                   !.R_tilde[state][action] =
                       RAdd(@, RMul(alpha_v, RSub(reward, @)))]
        nq == RQLearning_next_q(me1, next_state, next_action)
        q_next == nq.value
        beta == IF me.delta # NoParameter THEN RMul(alpha_v, coef) ELSE coef
        me2 == [nq.me EXCEPT
                   !.delta = IF me.delta # NoParameter
                             THEN [n_updates |->
                                   ParameterCall(@.n_updates, state, action)]
                             ELSE @,
                   !.beta = IF me.delta # NoParameter THEN @
                            ELSE [n_updates |->
                                  ParameterCall(@.n_updates, state, action)],
                   !.Q_tilde[state][action] =
                       RAdd(@, RMul(beta, RSub(q_next, @)))]
    IN  IF ~absorbing
        THEN [me2 EXCEPT
                 !.Q[state][action] =
                     RAdd(me2.R_tilde[state][action],
                          RMul(me.gamma, me2.Q_tilde[state][action]))]
        ELSE me1

RQLearning_update(me, state, action, reward, next_state, absorbing, alpha_v, coef, next_action) ==
    LET me1 == [me EXCEPT
                   !.alpha = ParameterCall(@, state, action),
                   !.R_tilde[state][action] =
                       RAdd(@, RMul(alpha_v, RSub(reward, @)))]
        nq == RQLearning_next_q(me1, next_state, next_action)
        q_next == nq.value
        beta == IF me.delta # NoParameter THEN RMul(alpha_v, coef) ELSE coef
        me2 == IF ~absorbing
               THEN [nq.me EXCEPT
                        !.delta = IF me.delta # NoParameter
                                  THEN [n_updates |->
                                        ParameterCall(@.n_updates, state, action)]
                                  ELSE @,
                        !.beta = IF me.delta # NoParameter THEN @
                                 ELSE [n_updates |->
                                       ParameterCall(@.n_updates, state, action)],
                        !.Q_tilde[state][action] =
                            RAdd(@, RMul(beta, RSub(q_next, @)))]
               ELSE me1
    IN  [me2 EXCEPT
            !.Q[state][action] =
                RAdd(me2.R_tilde[state][action],
                     RMul(me.gamma, me2.Q_tilde[state][action]))]

NewRQLearning ==
    /\ self = NoAgent
    /\ \E g \in Gammas, off_policy \in BOOLEAN,
          beta \in {NoParameter, Parameter}, delta \in {NoParameter, Parameter} :
          /\ self' = RQLearning_init(g, off_policy, beta, delta)
          /\ last' = [op |-> "init", cls |-> "RQLearning",
                      beta |-> beta, delta |-> delta,
                      raised |-> IF self'.cls = "failed" THEN "ValueError"
                                 ELSE "no"]
    /\ UNCHANGED <<heap, nfit, hist>>

FitRQLearning(bound) ==
    /\ self.cls = "RQLearning"
    /\ nfit < bound
    /\ \E sample \in Samples, al \in AlphaValues :
          LET t == TD_parse(<<sample>>)
          IN  \E coef \in IF t.absorbing THEN {Zero} ELSE CoefValues :
              \E na \in IF t.absorbing \/ self.off_policy THEN {NoAction}
                        ELSE Actions :
                 /\ self' = RQLearning_update(self, t.state, t.action, t.reward,
                                t.next_state, t.absorbing, al, coef, na)
                 /\ last' = [op |-> "fit", cls |-> "RQLearning", t |-> t,
                             alpha |-> al, coef |-> coef, next_action |-> na,
                             raised |-> "no"]
    /\ nfit' = nfit + 1
    /\ UNCHANGED <<heap, hist>>

Next ==
    \/ NewQLearning
    \/ FitQLearning(MaxFit)
    \/ NewDoubleQLearning
    \/ FitDoubleQLearning(MaxFit)
    \/ NewSpeedyQLearning
    \/ FitSpeedyQLearning(MaxFit)
    \/ NewSARSA
    \/ FitSARSA(MaxFit)
    \/ NewExpectedSARSA
    \/ FitExpectedSARSA(MaxFit)
    \/ NewRLearning
    \/ FitRLearning(MaxFit)
    \/ NewSARSALambdaDiscrete
    \/ FitSARSALambdaDiscrete(MaxFit)
    \/ EpisodeStartSARSALambdaDiscrete
    \/ NewSARSALambdaContinuous
    \/ FitSARSALambdaContinuous(MaxFit)
    \/ EpisodeStartSARSALambdaContinuous
    \/ NewTrueOnlineSARSALambda
    \/ FitTrueOnlineSARSALambda(MaxFit)
    \/ EpisodeStartTrueOnlineSARSALambda
    \/ NewWeightedQLearning
    \/ FitWeightedQLearning(MaxFit)
    \/ NewRQLearning
    \/ FitRQLearning(MaxFit)
    \/ FitBadDataset(MaxFit)

Spec == Init /\ [][Next]_vars

(***************************************************************************)
(* The rules taken alone or in families.                                   *)
(***************************************************************************)
NextOneStep ==
    \/ NewQLearning
    \/ FitQLearning(MaxFitLong)
    \/ NewSARSA
    \/ FitSARSA(MaxFitLong)
    \/ NewExpectedSARSA
    \/ FitExpectedSARSA(MaxFitLong)
    \/ FitBadDataset(MaxFitLong)

SpecOneStep == Init /\ [][NextOneStep]_vars

\* a step that is a fit call of class cls which reached _update and returned
FitStep(cls) ==
    /\ nfit' = nfit + 1
    /\ last'.op = "fit"
    /\ last'.cls = cls
    /\ last'.raised = "no"

\* the last call was a fit call of class cls which reached _update and returned
Called(cls) ==
    /\ last.op = "fit"
    /\ last.cls = cls
    /\ last.raised = "no"

(***************************************************************************)
(* C3: residual-update law of QLearning, SARSA and ExpectedSARSA.          *)
(***************************************************************************)
\* the bootstrap value C3 names, read from the store before the write
OneStepQNext(cls, Q, t, call) ==
    IF t.absorbing THEN Zero
    ELSE IF cls = "QLearning" THEN RowMax(Q[t.next_state])
    ELSE IF cls = "SARSA" THEN Q[t.next_state][call.next_action]
    ELSE RAdd(RMul(Q[t.next_state][0], call.pi[0]),
              RMul(Q[t.next_state][1], call.pi[1]))

OneStepLaw(cls) ==
    FitStep(cls) =>
        LET t == last'.t
            q_before == self.Q[t.state][t.action]
            q_next == OneStepQNext(cls, self.Q, t, last')
            target == RAdd(t.reward, RMul(self.gamma, q_next))
        IN  self'.Q[t.state][t.action] =
                RAdd(q_before, RMul(last'.alpha, RSub(target, q_before)))

\* the literal case of C3: Q_before = 2.0, alpha = 0.5, reward = 1.0,
\* gamma = 0.9, q_next = 4.0 gives 3.3
ExampleQ == [s \in States |-> [a \in Actions |->
                IF s = 0 /\ a = 0 THEN <<2, 1>>
                ELSE IF s = 1 /\ a = 1 THEN <<4, 1>> ELSE Zero]]

ExampleCase ==
    /\ QLearning_update([QLearning_init(<<9, 10>>) EXCEPT !.Q = ExampleQ],
           0, 0, One, 1, FALSE, <<1, 2>>).Q[0][0] = <<33, 10>>
    /\ SARSA_update([SARSA_init(<<9, 10>>) EXCEPT !.Q = ExampleQ],
           0, 0, One, 1, FALSE, <<1, 2>>, 1).Q[0][0] = <<33, 10>>
    /\ ExpectedSARSA_update([ExpectedSARSA_init(<<9, 10>>) EXCEPT !.Q = ExampleQ],
           0, 0, One, 1, FALSE, <<1, 2>>,
           [a \in Actions |-> IF a = 1 THEN One ELSE Zero]).Q[0][0] = <<33, 10>>

\* C3: a fit call of QLearning, SARSA or ExpectedSARSA leaves Q(s,a) equal to
\* Q_before(s,a) + alpha * (r + gamma * q_next - Q_before(s,a)), q_next being
\* the maximum of the next row, the entry of the drawn next action, or the
\* policy-weighted sum of the next row, read before the write (0 if
\* absorbing); the literal case 2.0, 0.5, 1.0, 0.9, 4.0 gives 3.3.
C3_ResidualLaw ==
    [][/\ OneStepLaw("QLearning")
       /\ OneStepLaw("SARSA")
       /\ OneStepLaw("ExpectedSARSA")
       /\ ExampleCase]_vars

\* a SARSA call with next_state = state whose bootstrap value was not 0
C3_Witness ==
    /\ Called("SARSA")
    /\ ~last.t.absorbing
    /\ last.t.next_state = last.t.state
    /\ last.next_action = last.t.action
    /\ last.alpha = <<1, 2>>
    /\ self.Q[last.t.state][last.t.action] = <<39, 40>>

(***************************************************************************)
(* C1: on an absorbing transition the bootstrap term is 0.                 *)
(***************************************************************************)
NextRQ ==
    \/ NewRQLearning
    \/ FitRQLearning(MaxFitLong)
    \/ FitBadDataset(MaxFitLong)

SpecRQ == Init /\ [][NextRQ]_vars

\* q + alpha * (reward - q): the residual update with q_next = 0
ResidualZero(q, alpha_v, reward) == RAdd(q, RMul(alpha_v, RSub(reward, q)))

\* the table rules whose written value is the residual update
AbsorbingZeroTable(cls) ==
    FitStep(cls) /\ last'.t.absorbing =>
        LET t == last'.t
        IN  self'.Q[t.state][t.action] =
                ResidualZero(self.Q[t.state][t.action], last'.alpha, t.reward)

AbsorbingZeroDouble ==
    FitStep("DoubleQLearning") /\ last'.t.absorbing =>
        LET t == last'.t
            i == last'.approximator_idx
        IN  self'.Q[i][t.state][t.action] =
                ResidualZero(self.Q[i][t.state][t.action], last'.alpha, t.reward)

AbsorbingZeroSpeedy ==
    FitStep("SpeedyQLearning") /\ last'.t.absorbing =>
        LET t == last'.t
        IN  heap'[self'.Q][t.state][t.action] =
                ResidualZero(heap[self.Q][t.state][t.action], last'.alpha,
                             t.reward)

AbsorbingZeroRLearning ==
    FitStep("RLearning") /\ last'.t.absorbing =>
        LET t == last'.t
        IN  self'.Q[t.state][t.action] =
                ResidualZero(self.Q[t.state][t.action], last'.alpha,
                             RSub(t.reward, self._rho))

AbsorbingZeroLambdaDiscrete ==
    FitStep("SARSALambdaDiscrete") /\ last'.t.absorbing =>
        LET t == last'.t
            delta == RSub(t.reward, self.Q[t.state][t.action])
        IN  \A s \in States, a \in Actions :
               LET e == IF s = t.state /\ a = t.action
                        THEN IF self.e.name = "replacing" THEN One
                             ELSE RAdd(self.e.table[s][a], One)
                        ELSE self.e.table[s][a]
               IN  self'.Q[s][a] =
                       RAdd(self.Q[s][a], RMul(RMul(last'.alpha, delta), e))

AbsorbingZeroLambdaContinuous ==
    FitStep("SARSALambdaContinuous") /\ last'.t.absorbing =>
        LET t == last'.t
            q_current == Regressor_predict(self.Q, Phi(t.state), t.action)
            delta == RSub(t.reward, q_current)
        IN  self'.Q = VAdd(self.Q, VScale(RMul(last'.alpha, delta), self'.e))

AbsorbingZeroTrueOnline ==
    FitStep("TrueOnlineSARSALambda") /\ last'.t.absorbing =>
        LET t == last'.t
            q_current == Regressor_predict(self.Q, Phi(t.state), t.action)
            q_old == IF self._q_old = None THEN q_current ELSE self._q_old
            delta == RSub(t.reward, q_old)
        IN  /\ self'.Q = VAdd(self.Q,
                   VAdd(VScale(delta, self'.e),
                        VScale(RMul(last'.alpha, RSub(q_old, q_current)),
                               Regressor_diff(Phi(t.state), t.action))))
            /\ self'._q_old = Zero

\* RQLearning: Q = R_tilde + gamma * Q_tilde with the continuation term 0
AbsorbingZeroRQ ==
    FitStep("RQLearning") /\ last'.t.absorbing =>
        LET t == last'.t
        IN  self'.Q[t.state][t.action] =
                ResidualZero(self.R_tilde[t.state][t.action], last'.alpha,
                             t.reward)

AbsorbingZeroOtherRules ==
    [][/\ AbsorbingZeroTable("QLearning")
       /\ AbsorbingZeroTable("SARSA")
       /\ AbsorbingZeroTable("ExpectedSARSA")
       /\ AbsorbingZeroTable("WeightedQLearning")
       /\ AbsorbingZeroDouble
       /\ AbsorbingZeroSpeedy
       /\ AbsorbingZeroRLearning
       /\ AbsorbingZeroLambdaDiscrete
       /\ AbsorbingZeroLambdaContinuous
       /\ AbsorbingZeroTrueOnline]_vars

\* C1: for every rule, a fit call on an absorbing transition writes the
\* rule's update formula evaluated with the bootstrap term (q_next, or the
\* Q_tilde term of RQLearning) equal to 0, whatever the stores contain.
C1_AbsorbingZero ==
    [][/\ AbsorbingZeroTable("QLearning")
       /\ AbsorbingZeroTable("SARSA")
       /\ AbsorbingZeroTable("ExpectedSARSA")
       /\ AbsorbingZeroTable("WeightedQLearning")
       /\ AbsorbingZeroDouble
       /\ AbsorbingZeroSpeedy
       /\ AbsorbingZeroRLearning
       /\ AbsorbingZeroLambdaDiscrete
       /\ AbsorbingZeroLambdaContinuous
       /\ AbsorbingZeroTrueOnline
       /\ AbsorbingZeroRQ]_vars

(***************************************************************************)
(* C2: a learning rate of 0 leaves the Q store as it was.                  *)
(***************************************************************************)
\* the Q store of the agent: a table, an ensemble of tables, or weights
QStore(me, h) == IF me.cls = "SpeedyQLearning" THEN h[me.Q] ELSE me.Q

ZeroRate(cls) ==
    FitStep(cls) /\ last'.alpha = Zero => QStore(self', heap') = QStore(self, heap)

\* RQLearning configured with beta rates Q_tilde by beta alone
ZeroRateRQ ==
    /\ FitStep("RQLearning")
    /\ last'.alpha = Zero
    /\ (last'.t.absorbing \/ self.delta # NoParameter \/ last'.coef = Zero)
    => self'.Q = self.Q

\* C2 as stated: for any rule and any transition, if the learning-rate
\* schedule returns 0 for the call, the Q store after fit equals the Q store
\* before it.
C2_ZeroRateAnyRule ==
    [][/\ ZeroRate("QLearning")
       /\ ZeroRate("DoubleQLearning")
       /\ ZeroRate("WeightedQLearning")
       /\ ZeroRate("SpeedyQLearning")
       /\ ZeroRate("SARSA")
       /\ ZeroRate("SARSALambdaDiscrete")
       /\ ZeroRate("SARSALambdaContinuous")
       /\ ZeroRate("ExpectedSARSA")
       /\ ZeroRate("TrueOnlineSARSALambda")
       /\ ZeroRate("RLearning")
       /\ ZeroRate("RQLearning")]_vars

\* C2 as amended: the same for every rule but SpeedyQLearning and
\* TrueOnlineSARSALambda, where for RQLearning configured with beta, on a
\* transition that is not absorbing, the beta schedule returns 0 as well.
C2_ZeroRate ==
    [][/\ ZeroRate("QLearning")
       /\ ZeroRate("DoubleQLearning")
       /\ ZeroRate("WeightedQLearning")
       /\ ZeroRate("SARSA")
       /\ ZeroRate("SARSALambdaDiscrete")
       /\ ZeroRate("SARSALambdaContinuous")
       /\ ZeroRate("ExpectedSARSA")
       /\ ZeroRate("RLearning")
       /\ ZeroRateRQ]_vars

\* a call of SARSALambdaDiscrete with rate 0, a TD error that is not 0 and a
\* trace that is not 0
C2_Witness ==
    /\ Called("SARSALambdaDiscrete")
    /\ last.alpha = Zero
    /\ last.t.absorbing
    /\ self.Q[last.t.state][last.t.action] # One
    /\ \E s \in States, a \in Actions :
          /\ <<s, a>> # <<last.t.state, last.t.action>>
          /\ self.e.table[s][a] # Zero
          /\ self.Q[s][a] # Zero

(***************************************************************************)
(* C4: RLearning updates rho only when the written value is the row's      *)
(* maximum.                                                                *)
(***************************************************************************)
NextRL ==
    \/ NewRLearning
    \/ FitRLearning(MaxFit)
    \/ FitBadDataset(MaxFit)

SpecRL == Init /\ [][NextRL]_vars

\* rho is 0 after construction; a fit call moves it by the stated amount when
\* the written value is the maximum of its row and leaves it otherwise
RhoLaw ==
    /\ last'.op = "init" /\ last'.cls = "RLearning" => self'._rho = Zero
    /\ FitStep("RLearning") =>
          LET t == last'.t
              q_next == IF t.absorbing THEN Zero ELSE RowMax(self.Q[t.next_state])
              q_max == RowMax(self'.Q[t.state])
          IN  IF self'.Q[t.state][t.action] = q_max
              THEN self'._rho =
                       RAdd(self._rho,
                            RMul(last'.beta,
                                 RSub(RSub(RAdd(t.reward, q_next), q_max),
                                      self._rho)))
              ELSE self'._rho = self._rho

\* the scenario's first call: one state, Q = [0, 0], reward 1, beta 0.1,
\* action 0 written to a new maximum
ScenarioNewMax ==
    /\ FitStep("RLearning")
    /\ self.Q[0] = [a \in Actions |-> Zero]
    /\ self._rho = Zero
    /\ last'.t.state = 0
    /\ last'.t.action = 0
    /\ last'.t.next_state = 0
    /\ last'.t.reward = One
    /\ last'.beta = <<1, 10>>
    /\ RLt(Zero, self'.Q[0][0])

\* the scenario's second call: action 1 written below the maximum
ScenarioNotMax ==
    /\ FitStep("RLearning")
    /\ last'.t.state = 0
    /\ last'.t.action = 1
    /\ last'.t.next_state = 0
    /\ last'.t.reward = One
    /\ last'.beta = <<1, 10>>
    /\ RLt(self'.Q[0][1], RowMax(self'.Q[0]))

\* C4 as stated: the law of rho, and in the scenario writing action 0 to a
\* new maximum changes rho while writing action 1 below the maximum leaves
\* rho unchanged.
C4_RhoScenarioAnyRate ==
    [][/\ RhoLaw
       /\ ScenarioNewMax => self'._rho # self._rho
       /\ ScenarioNotMax => self'._rho = self._rho]_vars

\* C4 as amended: the law of rho; in the scenario writing action 0 to a new
\* maximum makes rho 0.1 * (1 - alpha), which changes rho unless the learning
\* rate is 1; writing action 1 below the maximum leaves rho unchanged.
C4_RhoLaw ==
    [][/\ RhoLaw
       /\ ScenarioNewMax =>
             /\ self'._rho = RMul(<<1, 10>>, RSub(One, last'.alpha))
             /\ (last'.alpha # One => self'._rho # self._rho)
             /\ (last'.alpha = One => self'._rho = self._rho)
       /\ ScenarioNotMax => self'._rho = self._rho]_vars

\* the scenario run: action 0 became the maximum and moved rho, then action 1
\* was written below it
C4_Witness ==
    /\ Called("RLearning")
    /\ nfit = 2
    /\ last.t.state = 0
    /\ last.t.action = 1
    /\ last.t.reward = One
    /\ last.beta = <<1, 10>>
    /\ self.Q[0][0] = <<1, 2>>
    /\ RLt(Zero, self.Q[0][1])
    /\ RLt(self.Q[0][1], self.Q[0][0])
    /\ self._rho = <<1, 20>>

(***************************************************************************)
(* C5: decay of the eligibility trace of SARSALambdaDiscrete.              *)
(***************************************************************************)
NextTrace ==
    \/ NewSARSALambdaDiscrete
    \/ FitSARSALambdaDiscrete(MaxFitLong)
    \/ EpisodeStartSARSALambdaDiscrete
    \/ FitBadDataset(MaxFitLong)

SpecTrace == Init /\ [][NextTrace]_vars

\* C5: an entry visited once since the last episode_start equals
\* (gamma * lambda)^k times its value after the call that visited it, k being
\* the number of fit calls made since; an entry not visited since the last
\* episode_start is 0.
C5_TraceDecay ==
    self.cls = "SARSALambdaDiscrete" =>
        \A s \in States, a \in Actions :
           /\ hist[s][a].visits = 0 => self.e.table[s][a] = Zero
           /\ hist[s][a].visits = 1 =>
                 self.e.table[s][a] =
                     RMul(RPow(RMul(self.gamma, self._lambda), hist[s][a].k),
                          hist[s][a].first)

\* an entry visited once, two fit calls ago, beside an entry never visited
C5_Witness ==
    /\ self.cls = "SARSALambdaDiscrete"
    /\ \E s \in States, a \in Actions :
          /\ hist[s][a].visits = 1
          /\ hist[s][a].k = 2
          /\ self.e.table[s][a] # Zero
          /\ self.e.table[s][a] # hist[s][a].first
    /\ \E s \in States, a \in Actions : hist[s][a].visits = 0

(***************************************************************************)
(* C6: WeightedQLearning without sampling.                                 *)
(***************************************************************************)
NextWeighted ==
    \/ NewWeightedQLearning
    \/ FitWeightedQLearning(MaxFit)
    \/ FitBadDataset(MaxFit)

SpecWeighted == Init /\ [][NextWeighted]_vars

\* a step that is a fit call of class cls on one transition
FitCall(cls) ==
    /\ nfit' = nfit + 1
    /\ last'.op = "fit"
    /\ last'.cls = cls
    /\ last'.raised # "AssertionError"

\* C6: every fit call on a WeightedQLearning configured with sampling=False
\* signals the not-supported error and leaves Q, the update counts, the
\* running means and sigma as they were.
C6_NoSamplingAlwaysRaises ==
    [][FitCall("WeightedQLearning") /\ ~self._sampling =>
          /\ last'.raised = "NotImplementedError"
          /\ self'.Q = self.Q
          /\ self'._n_updates = self._n_updates
          /\ self'._Q = self._Q
          /\ self'._Q2 = self._Q2
          /\ self'._sigma = self._sigma]_vars

\* what the code does: the error is raised on the transitions that are not
\* absorbing, before anything is written
NoSamplingRaisesUnlessAbsorbing ==
    [][FitCall("WeightedQLearning") /\ ~self._sampling /\ ~last'.t.absorbing =>
          /\ last'.raised = "NotImplementedError"
          /\ self' = self]_vars

(***************************************************************************)
(* C7: the constructor of RQLearning wants exactly one of beta and delta.  *)
(***************************************************************************)
NextRQInit ==
    \/ NewRQLearning
    \/ FitRQLearning(MaxFit)
    \/ FitBadDataset(MaxFit)

SpecRQInit == Init /\ [][NextRQInit]_vars

Stores == {"Q", "Q_tilde", "R_tilde"}

\* C7: constructed with both beta and delta, or with neither, RQLearning
\* fails with a ValueError, no store exists and no fit call ever runs on it;
\* constructed with exactly one, it succeeds and records the other as absent.
C7_ExactlyOneCoefficient ==
    /\ self.cls = "failed" =>
          /\ last.op = "init"
          /\ last.raised = "ValueError"
          /\ nfit = 0
          /\ Stores \cap DOMAIN self = {}
    /\ last.op = "init" /\ last.cls = "RQLearning" =>
          IF (last.beta = NoParameter) = (last.delta = NoParameter)
          THEN self.cls = "failed"
          ELSE /\ self.cls = "RQLearning"
               /\ last.raised = "no"
               /\ Stores \subseteq DOMAIN self
               /\ (last.beta = NoParameter) = (self.beta = NoParameter)
               /\ (last.delta = NoParameter) = (self.delta = NoParameter)
               /\ (self.beta = NoParameter) # (self.delta = NoParameter)
    /\ self.cls = "RQLearning" =>
          (self.beta = NoParameter) # (self.delta = NoParameter)

\* the constructor was given both and failed
C7_Witness ==
    /\ last.op = "init"
    /\ last.cls = "RQLearning"
    /\ last.beta # NoParameter
    /\ last.delta # NoParameter
    /\ self.cls = "failed"

(***************************************************************************)
(* C8: the previous store of SpeedyQLearning.                              *)
(***************************************************************************)
NextSpeedy ==
    \/ NewSpeedyQLearning
    \/ FitSpeedyQLearning(MaxFitLong)
    \/ FitBadDataset(MaxFitLong)

SpecSpeedy == Init /\ [][NextSpeedy]_vars

\* C8: after a fit call old_q equals, entry for entry, Q as it was before the
\* call, so Q and old_q differ at most in the entry the call wrote, and old_q
\* is not the object Q; the value written is
\* q_cur + alpha * (target_old - q_cur) + (1 - alpha) * (target_cur - target_old)
\* with target_old from the old_q held when the call began.
C8_PreviousStore ==
    [][FitStep("SpeedyQLearning") =>
          LET t == last'.t
              Q_before == heap[self.Q]
              old_before == heap[self.old_q]
              max_cur == IF t.absorbing THEN Zero
                         ELSE RowMax(Q_before[t.next_state])
              max_old == IF t.absorbing THEN Zero
                         ELSE RowMax(old_before[t.next_state])
              target_cur == RAdd(t.reward, RMul(self.gamma, max_cur))
              target_old == RAdd(t.reward, RMul(self.gamma, max_old))
              q_cur == Q_before[t.state][t.action]
          IN  /\ heap'[self'.old_q] = Q_before
              /\ self'.old_q # self'.Q
              /\ \A s \in States, a \in Actions :
                    <<s, a>> # <<t.state, t.action>> =>
                        heap'[self'.Q][s][a] = heap'[self'.old_q][s][a]
              /\ heap'[self'.Q][t.state][t.action] =
                     RAdd(RAdd(q_cur,
                               RMul(last'.alpha, RSub(target_old, q_cur))),
                          RMul(RSub(One, last'.alpha),
                               RSub(target_cur, target_old)))]_vars

\* a call whose two targets differed and which changed the entry it wrote
C8_Witness ==
    /\ Called("SpeedyQLearning")
    /\ ~last.t.absorbing
    /\ nfit = 3
    /\ heap[self.Q][last.t.state][last.t.action] #
           heap[self.old_q][last.t.state][last.t.action]
    /\ heap[self.old_q] # Table(Zero)
    /\ last.alpha = Zero

(***************************************************************************)
(* C9: the frame of a DoubleQLearning update.                              *)
(***************************************************************************)
NextDouble ==
    \/ NewDoubleQLearning
    \/ FitDoubleQLearning(MaxFit)
    \/ FitBadDataset(MaxFit)

SpecDouble == Init /\ [][NextDouble]_vars

\* C9: a fit call picks i in {0, 1} and changes only Q_i(s,a); the other
\* store and the other entries of Q_i are unchanged; only the schedule clone
\* of member i is advanced; on a transition that is not absorbing the
\* bootstrap value is Q_{1-i}(next_state, a*), a* one of the argmax actions of
\* Q_i(next_state, .).
C9_DoubleFrame ==
    [][FitStep("DoubleQLearning") =>
          LET t == last'.t
              i == last'.approximator_idx
              a_n == last'.a_n
              q == self.Q[i][t.state][t.action]
          IN  /\ i \in {0, 1}
              /\ self'.Q[1 - i] = self.Q[1 - i]
              /\ \A s \in States, a \in Actions :
                    <<s, a>> # <<t.state, t.action>> =>
                        self'.Q[i][s][a] = self.Q[i][s][a]
              /\ self'.alpha[1 - i] = self.alpha[1 - i]
              /\ \A s \in States, a \in Actions :
                    self'.alpha[i][s][a] =
                        IF <<s, a>> = <<t.state, t.action>>
                        THEN self.alpha[i][s][a] + 1 ELSE self.alpha[i][s][a]
              /\ ~t.absorbing =>
                    /\ a_n \in Actions
                    /\ \A b \in Actions :
                          RLe(self.Q[i][t.next_state][b],
                              self.Q[i][t.next_state][a_n])
                    /\ self'.Q[i][t.state][t.action] =
                           RAdd(q, RMul(last'.alpha,
                               RSub(RAdd(t.reward,
                                         RMul(self.gamma,
                                              self.Q[1 - i][t.next_state][a_n])),
                                    q)))]_vars

\* a call that wrote store 1 from a bootstrap value of store 0 that store 1
\* does not hold
C9_Witness ==
    /\ Called("DoubleQLearning")
    /\ ~last.t.absorbing
    /\ last.approximator_idx = 1
    /\ last.alpha = <<1, 2>>
    /\ self.Q[0][last.t.next_state][last.a_n] # Zero
    /\ self.Q[0][last.t.next_state][last.a_n] #
           self.Q[1][last.t.next_state][last.a_n]
    /\ self.Q[1][last.t.state][last.t.action] = <<29, 40>>

(***************************************************************************)
(* C10: RQLearning keeps Q = R_tilde + gamma * Q_tilde.                    *)
(***************************************************************************)
\* C10: after construction and after every fit call each entry satisfies
\* Q(s,a) = R_tilde(s,a) + gamma * Q_tilde(s,a); a fit call changes R_tilde,
\* Q_tilde and Q only at its (s,a); on an absorbing transition Q_tilde(s,a)
\* is left unchanged.
C10_Decomposition ==
    [][/\ self'.cls = "RQLearning" =>
             \A s \in States, a \in Actions :
                self'.Q[s][a] =
                    RAdd(self'.R_tilde[s][a],
                         RMul(self'.gamma, self'.Q_tilde[s][a]))
       /\ FitStep("RQLearning") =>
             LET t == last'.t
             IN  /\ \A s \in States, a \in Actions :
                       <<s, a>> # <<t.state, t.action>> =>
                           /\ self'.Q[s][a] = self.Q[s][a]
                           /\ self'.Q_tilde[s][a] = self.Q_tilde[s][a]
                           /\ self'.R_tilde[s][a] = self.R_tilde[s][a]
                 /\ t.absorbing =>
                       self'.Q_tilde[t.state][t.action] =
                           self.Q_tilde[t.state][t.action]]_vars

\* an absorbing call on an entry whose Q_tilde is not 0
C10_Witness ==
    /\ Called("RQLearning")
    /\ last.t.absorbing
    /\ last.alpha # Zero
    /\ self.Q_tilde[last.t.state][last.t.action] # Zero
    /\ self.R_tilde[last.t.state][last.t.action] # Zero

====
